---- MODULE Spec2Model ----
(***************************************************************************)
(* Model of the promise wrapper over the host's transactional object       *)
(* store: Database (connection lifecycle, schema migration) and Model      *)
(* (per-table CRUD facade).  The host engine is the environment: its        *)
(* events (success, error, blocked, upgradeneeded, versionchange) are the  *)
(* actions that run the callbacks the wrapper registers.                   *)
(***************************************************************************)
EXTENDS Integers, Sequences, FiniteSets, TLC

\* ---------------------------------------------------------------- bounds
NumTables == 3          \* table names are 1..NumTables (sorted = name order)
MaxVersion == 2         \* database versions are 1..MaxVersion
MaxConnects == 2        \* connect() calls per Database instance
MaxOps == 2             \* Model operations that can be in flight together
MaxKey == 2             \* primary keys are 1..MaxKey
MaxTime == 2            \* Date.now() ranges over 1..MaxTime
MaxRows == 3            \* rows of the table select reads

TableNames == 1..NumTables
Versions == 1..MaxVersion
Requests == 1..MaxConnects
OpIds == 1..MaxOps
Keys == 1..MaxKey

\* ------------------------------------------------------------ JS values
Fields == {"id", "uid", "email", "name", "createdAt", "updatedAt"}
\* a record is a function Fields -> Nat; 0 stands for "property absent"
EmptyRecord == [f \in Fields |-> 0]
HasKey(data, key) == key \in Fields /\ data[key] # 0

\* JS truthiness of a tri-state boolean option ("true","false","undefined")
Truthy(x) == x = "true"
\* JS `a || b`
JsOr(a, b) == IF Truthy(a) THEN a ELSE b

\* TableType['primaryKey'] : name "" stands for an unspecified name
NoPrimaryKey == [name |-> "", autoIncrement |-> "undefined"]
PrimaryKeys ==
  { NoPrimaryKey,
    [name |-> "id",  autoIncrement |-> "true"],
    [name |-> "uid", autoIncrement |-> "false"] }

\* initData alternatives of a table
InitDatas ==
  { << >>,
    << [EmptyRecord EXCEPT !["uid"] = 1, !["id"] = 1] >>,
    << [EmptyRecord EXCEPT !["email"] = 1],
       [EmptyRecord EXCEPT !["uid"] = 2, !["id"] = 2] >>,
    << [EmptyRecord EXCEPT !["uid"] = 1, !["id"] = 1],
       [EmptyRecord EXCEPT !["uid"] = 1, !["id"] = 1, !["email"] = 1] >> }

\* the per-table settings a configuration may use
TableSettings ==
  { [primaryKey |-> NoPrimaryKey, indexes |-> {}, initData |-> << >>,
     timestamps |-> FALSE] } \cup
  { [primaryKey |-> pk, indexes |-> {"email"}, initData |-> d,
     timestamps |-> TRUE] : pk \in PrimaryKeys \ {NoPrimaryKey}, d \in InitDatas }

\* TableType
TableType(n, s) ==
  [name |-> n, primaryKey |-> s.primaryKey, indexes |-> s.indexes,
   initData |-> s.initData, timestamps |-> s.timestamps]

\* sequences of distinct table names, non-empty
RECURSIVE Perms(_)
Perms(S) ==
  IF S = {} THEN { << >> }
  ELSE UNION { { <<x>> \o p : p \in Perms(S \ {x}) } : x \in S }

TableLists == UNION { Perms(S) : S \in (SUBSET TableNames) \ {{}} }

\* ConfigType: every table of one configuration uses the same settings
ConfigType(v, names, s) ==
  [version |-> v, tables |-> [k \in 1..Len(names) |-> TableType(names[k], s)]]

\* ------------------------------------------------------- host object store
NoStore ==
  [exists |-> FALSE, keyPath |-> "", autoIncrement |-> FALSE,
   indexes |-> {}, records |-> {}, keyGen |-> 1]

VARIABLES
  indexedDB,      \* Database.indexedDB: TRUE when the host offers the factory
  version,        \* stored version of the database in the host (0: none)
  stores,         \* host object stores: TableNames -> store
  otherConn,      \* a connection held by another tab/process
  config,         \* Database.config (validated)
  connection,     \* Database.__connection: 0 is null, else connection id
  connections,    \* connections opened by this instance: id -> state
  requests,       \* the open request / promise of every connect() call
  now,            \* Date.now()
  model,          \* the Model handed out by useModel: table, tableClass, db
  ops,            \* the Model operations: promise, position, arguments
  queue,          \* requests the host has accepted, oldest transaction first
  instance,       \* the `new Database(config)` call: its outcome, and typeof
                  \* of every element of config.tables as it was passed
  use             \* the useModel call: target and outcome

vars == <<indexedDB, version, stores, otherConn, config, connection,
          connections, requests, now, model, ops, queue, instance, use>>

modelVars == <<model, ops, queue>>
callVars == <<instance, use>>

NoRequest ==
  [pc |-> "none", promise |-> "none", blocked |-> FALSE,
   oldVersion |-> 0, oldStores |-> {}, threw |-> FALSE]

\* no Model has been handed out
NoModel == [table |-> TableType(1, CHOOSE x \in TableSettings : x.initData = << >> /\ x.indexes = {}),
            tableClass |-> FALSE, db |-> 0]

\* new Database(config) returned, config.tables being n plain objects
Constructed(n) == [state |-> "constructed", tables |-> [k \in 1..n |-> "object"]]

\* useModel has not been called
NoUse == [target |-> [kind |-> "string", name |-> 0], outcome |-> "none"]

\* an unused operation slot
NoOp ==
  [kind |-> "none", pc |-> "idle", promise |-> "none", key |-> 0,
   arg |-> EmptyRecord, dataToUpdate |-> EmptyRecord, overlaps |-> {},
   hasWhere |-> FALSE, sortBy |-> "", desc |-> FALSE,
   hasLimit |-> FALSE, limit |-> 0,
   result |-> << >>, resultKey |-> 0, error |-> ""]

\* ------------------------------------------------------------ host helpers
RECURSIVE SortedSeq(_)
SortedSeq(S) ==
  IF S = {} THEN << >>
  ELSE LET m == CHOOSE x \in S : \A y \in S : x <= y
       IN <<m>> \o SortedSeq(S \ {m})

\* db.objectStoreNames: the sorted list of the names of the existing stores
objectStoreNames(db) == SortedSeq({ n \in TableNames : db[n].exists })

\* db.objectStoreNames.contains(name)
contains(db, name) == db[name].exists

\* db.deleteObjectStore(name)
deleteObjectStore(db, name) == [db EXCEPT ![name] = NoStore]

\* a findIndex that finds no table
findIndexNone(tables, tableName) == -1

\* database.tables.findIndex((t) => t.name === tableName), 0-based, -1 if none
findIndex(tables, tableName) ==
  IF \E k \in 1..Len(tables) : tables[k].name = tableName
  THEN (CHOOSE k \in 1..Len(tables) :
          /\ tables[k].name = tableName
          /\ \A j \in 1..(k-1) : tables[j].name # tableName) - 1
  ELSE -1

\* db.createObjectStore(name, {keyPath, autoIncrement})
createObjectStore(keyPath, autoIncrement) ==
  [exists |-> TRUE, keyPath |-> keyPath, autoIncrement |-> autoIncrement,
   indexes |-> {}, records |-> {}, keyGen |-> 1]

\* store.add(data): the resulting store and the error, if any: DataError is
\* thrown by add() itself when no key can be derived, ConstraintError is the
\* failure of the request on a duplicate key
StoreAdd(store, data) ==
  LET given == data[store.keyPath]
      key == IF given # 0 THEN given ELSE store.keyGen
      value == [data EXCEPT ![store.keyPath] = key]
  IN IF given = 0 /\ ~store.autoIncrement
     THEN [store |-> store, error |-> "DataError", key |-> 0]
     ELSE IF \E r \in store.records : r[store.keyPath] = key
     THEN [store |-> store, error |-> "ConstraintError", key |-> 0]
     ELSE [store |-> [store EXCEPT !.records = @ \cup {value},
                                   !.keyGen = IF key >= @ THEN key + 1 ELSE @],
           error |-> "none", key |-> key]

\* ------------------------------------------------------ Database (static)
\* a verify that accepts every record
verifyNever(data, table) == FALSE

\* Database.verify(data, [table]): TRUE when it throws
verifyThrows(data, table) ==
  /\ table.primaryKey.autoIncrement = "false"
  /\ ~HasKey(data, table.primaryKey.name)

\* Database.createIndexes(store, indexes): a failing createIndex is ignored
RECURSIVE createIndexes(_, _)
createIndexes(store, indexes) ==
  IF indexes = {} THEN store
  ELSE LET key == CHOOSE k \in indexes : TRUE
           next == IF key \in store.indexes
                   THEN store                      \* createIndex throws: ignored
                   ELSE [store EXCEPT !.indexes = @ \cup {key}]
       IN createIndexes(next, indexes \ {key})

\* the timestamps spread of insertInitialValues / insert
withTimestamps(data, table, t) ==
  IF table.timestamps
  THEN [data EXCEPT !["createdAt"] = t, !["updatedAt"] = t]
  ELSE data

\* Database.insertInitialValues(store, table): adds until verify throws;
\* failed is set when one of the issued add requests fails
RECURSIVE insertInitialValues(_, _, _, _)
insertInitialValues(store, table, k, t) ==
  IF k > Len(table.initData)
  THEN [store |-> store, threw |-> FALSE, failed |-> FALSE]
  ELSE LET data == withTimestamps(table.initData[k], table, t)
       IN IF verifyThrows(data, table)
          THEN [store |-> store, threw |-> TRUE, failed |-> FALSE]
          ELSE LET a == StoreAdd(store, data)
               IN IF a.error = "DataError"
                  THEN [store |-> store, threw |-> TRUE, failed |-> FALSE]
                  ELSE LET rest == insertInitialValues(a.store, table, k + 1, t)
                       IN [store |-> rest.store, threw |-> rest.threw,
                           failed |-> (a.error = "ConstraintError") \/ rest.failed]

\* the "Delete removed tables" loop of onUpgradeNeeded, i is the 0-based index
RECURSIVE DeleteRemovedTables(_, _, _)
DeleteRemovedTables(db, database, i) ==
  IF i >= Len(objectStoreNames(db)) THEN db
  ELSE LET tableName == objectStoreNames(db)[i + 1]
       IN IF findIndex(database.tables, tableName) = -1
          THEN DeleteRemovedTables(deleteObjectStore(db, tableName), database, i + 1)
          ELSE DeleteRemovedTables(db, database, i + 1)

\* key path and auto-increment flag handed to createObjectStore
StoreKeyPath(table) == IF table.primaryKey.name # "" THEN table.primaryKey.name ELSE "id"
StoreAutoIncrement(table) == Truthy(JsOr(table.primaryKey.autoIncrement, "true"))

\* the `for (const table of database.tables)` loop of onUpgradeNeeded.
\* db.transaction() throws InvalidStateError while the upgrade transaction is
\* live, which ends the loop.
RECURSIVE CreateTables(_, _, _, _)
CreateTables(db, database, k, t) ==
  IF k > Len(database.tables)
  THEN [db |-> db, threw |-> FALSE, failed |-> FALSE]
  ELSE LET table == database.tables[k]
       IN IF ~contains(db, table.name)
          THEN LET store == createObjectStore(StoreKeyPath(table), StoreAutoIncrement(table))
                   indexed == createIndexes(store, table.indexes)
                   ins == insertInitialValues(indexed, table, 1, t)
                   db2 == [db EXCEPT ![table.name] = ins.store]
               IN IF ins.threw
                  THEN [db |-> db2, threw |-> TRUE, failed |-> ins.failed]
                  ELSE LET rest == CreateTables(db2, database, k + 1, t)
                       IN [db |-> rest.db, threw |-> rest.threw,
                           failed |-> ins.failed \/ rest.failed]
          ELSE [db |-> db, threw |-> TRUE, failed |-> FALSE]

\* Database.onUpgradeNeeded(db, database, oldVersion)
onUpgradeNeeded(db, database, oldVersion, t) ==
  LET kept == IF oldVersion < database.version /\ oldVersion # 0
              THEN DeleteRemovedTables(db, database, 0)
              ELSE db
  IN CreateTables(kept, database, 1, t)

\* ------------------------------------------------------------------ Init
Init ==
  /\ indexedDB \in BOOLEAN
  /\ version = 0
  /\ stores = [n \in TableNames |-> NoStore]
  /\ otherConn = "none"
  /\ config \in { ConfigType(v, names, s) :
                    v \in Versions, names \in TableLists, s \in TableSettings }
  /\ connection = 0
  /\ connections = [c \in Requests |-> "none"]
  /\ requests = [r \in Requests |-> NoRequest]
  /\ now = 1
  /\ model = NoModel
  /\ ops = [o \in OpIds |-> NoOp]
  /\ queue = << >>
  /\ instance = Constructed(Len(config.tables))
  /\ use = NoUse

\* resolve()/reject() of a promise: only the first call settles it
Settle(promise, outcome) == IF promise = "pending" THEN outcome ELSE promise

\* the host handles the open requests of one database in the order they came
Earlier(r) == \A q \in Requests : q < r => requests[q].pc = "done"

OwnOpen == { c \in Requests : connections[c] = "open" }

\* ------------------------------------------------------ Database.connect
\* connect(): the promise executor up to the registration of the callbacks
Connect(r) ==
  /\ instance.state = "constructed"
  /\ requests[r].pc = "none"
  /\ \A q \in Requests : q < r => requests[q].pc # "none"
  /\ IF ~indexedDB
     THEN requests' = [requests EXCEPT ![r] =
                         [@ EXCEPT !.pc = "done", !.promise = "rejected"]]
     ELSE requests' = [requests EXCEPT ![r] =
                         [@ EXCEPT !.pc = "pending", !.promise = "pending"]]
  /\ UNCHANGED <<indexedDB, version, stores, otherConn, config, connection,
                 connections, now, modelVars, callVars>>

\* request.onerror: the stored version is newer than the requested one
OnError(r) ==
  /\ requests[r].pc = "pending"
  /\ Earlier(r)
  /\ version > config.version
  /\ requests' = [requests EXCEPT ![r] =
                    [NoRequest EXCEPT !.pc = "done",
                                      !.promise = Settle(requests[r].promise, "rejected")]]
  /\ UNCHANGED <<indexedDB, version, stores, otherConn, config, connection,
                 connections, now, modelVars, callVars>>

\* request.onblocked: an upgrade is needed and another connection stays open.
\* With __connection still null the close() call throws and reject is not
\* reached.
OnBlocked(r) ==
  /\ requests[r].pc = "pending"
  /\ Earlier(r)
  /\ version < config.version
  /\ otherConn = "open" \/ OwnOpen # {}
  /\ ~requests[r].blocked
  /\ IF connection = 0
     THEN /\ requests' = [requests EXCEPT ![r] = [@ EXCEPT !.blocked = TRUE]]
          /\ UNCHANGED connections
     ELSE /\ connections' = [connections EXCEPT ![connection] = "closed"]
          /\ requests' = [requests EXCEPT ![r] =
                            [@ EXCEPT !.blocked = TRUE,
                                      !.promise = Settle(@, "rejected")]]
  /\ UNCHANGED <<indexedDB, version, stores, otherConn, config, connection, now, modelVars, callVars>>

\* request.onupgradeneeded: runs Database.onUpgradeNeeded inside the upgrade
\* transaction; the promise of the async function is dropped.  A failed add
\* request aborts the upgrade transaction, which undoes it and fails the open.
OnUpgradeNeeded(r) ==
  /\ requests[r].pc = "pending"
  /\ Earlier(r)
  /\ version < config.version
  /\ otherConn = "none" /\ OwnOpen = {}
  /\ LET m == onUpgradeNeeded(stores, config, version, now)
     IN IF m.failed
        THEN /\ requests' = [requests EXCEPT ![r] =
                  [@ EXCEPT !.pc = "aborted", !.threw = m.threw,
                            !.oldVersion = version,
                            !.oldStores = { n \in TableNames : stores[n].exists }]]
             /\ UNCHANGED <<version, stores>>
        ELSE /\ requests' = [requests EXCEPT ![r] =
                  [@ EXCEPT !.pc = "upgraded", !.threw = m.threw,
                            !.oldVersion = version,
                            !.oldStores = { n \in TableNames : stores[n].exists }]]
             /\ version' = config.version
             /\ stores' = m.db
  /\ UNCHANGED <<indexedDB, otherConn, config, connection, connections, now, modelVars, callVars>>

\* request.onerror after the upgrade transaction was aborted
OnAbort(r) ==
  /\ requests[r].pc = "aborted"
  /\ requests' = [requests EXCEPT ![r] =
                    [NoRequest EXCEPT !.pc = "done",
                                      !.promise = Settle(requests[r].promise, "rejected")]]
  /\ UNCHANGED <<indexedDB, version, stores, otherConn, config, connection,
                 connections, now, modelVars, callVars>>

\* request.onsuccess: stores the new connection, registers onversionchange
\* and resolves
OnSuccess(r) ==
  /\ \/ requests[r].pc = "upgraded"
     \/ requests[r].pc = "pending" /\ Earlier(r) /\ version = config.version
  /\ connection' = r
  /\ connections' = [connections EXCEPT ![r] = "open"]
  /\ requests' = [requests EXCEPT ![r] =
                    [NoRequest EXCEPT !.pc = "done",
                                      !.promise = Settle(requests[r].promise, "resolved")]]
  /\ UNCHANGED <<indexedDB, version, stores, otherConn, config, now, modelVars, callVars>>

\* connection.onversionchange delivered to connection c of this instance:
\* the callback closes this.__connection
OnVersionChange(c) ==
  /\ connections[c] = "open"
  /\ connections' = [connections EXCEPT ![connection] = "closed"]
  /\ UNCHANGED <<indexedDB, version, stores, otherConn, config, connection,
                 requests, now, modelVars, callVars>>

\* ------------------------------------------------------------ environment
\* the host is not in the middle of an open request of this instance
NoOpenPending == \A r \in Requests : requests[r].pc \in {"none", "done"}

\* another tab opens the database (creating it empty at version 1 if absent)
OtherOpen ==
  /\ indexedDB
  /\ otherConn = "none"
  /\ NoOpenPending
  /\ otherConn' = "open"
  /\ version' = IF version = 0 THEN 1 ELSE version
  /\ UNCHANGED <<indexedDB, stores, config, connection, connections, requests, now, modelVars, callVars>>

OtherClose ==
  /\ otherConn = "open"
  /\ otherConn' = "none"
  /\ UNCHANGED <<indexedDB, version, stores, config, connection, connections,
                 requests, now, modelVars, callVars>>

\* another tab deletes the database once every connection to it is closed
OtherDelete ==
  /\ version > 0
  /\ otherConn = "none" /\ OwnOpen = {}
  /\ NoOpenPending
  /\ version' = 0
  /\ stores' = [n \in TableNames |-> NoStore]
  /\ UNCHANGED <<indexedDB, otherConn, config, connection, connections,
                 requests, now, modelVars, callVars>>

\* the settings shared by the tables of a configuration
SettingsOf(cfg) ==
  [primaryKey |-> cfg.tables[1].primaryKey, indexes |-> cfg.tables[1].indexes,
   initData |-> cfg.tables[1].initData, timestamps |-> cfg.tables[1].timestamps]

\* the page is loaded again and constructs a Database from a configuration:
\* a later release changes the version and the list of tables
NewDatabase(cfg) ==
  /\ \A r \in Requests : requests[r].pc \in {"none", "done"}
  /\ requests[1].pc = "done"
  /\ config' = cfg
  /\ connection' = 0
  /\ connections' = [c \in Requests |-> "none"]
  /\ requests' = [r \in Requests |-> NoRequest]
  /\ instance' = Constructed(Len(cfg.tables))
  /\ UNCHANGED <<indexedDB, version, stores, otherConn, now, modelVars, use>>

Next ==
  \/ \E r \in Requests : Connect(r)
  \/ \E r \in Requests : OnError(r)
  \/ \E r \in Requests : OnBlocked(r)
  \/ \E r \in Requests : OnUpgradeNeeded(r)
  \/ \E r \in Requests : OnAbort(r)
  \/ \E r \in Requests : OnSuccess(r)
  \/ \E c \in Requests : OnVersionChange(c)
  \/ OtherOpen
  \/ OtherClose
  \/ OtherDelete
  \/ \E v \in Versions, names \in TableLists :
        NewDatabase(ConfigType(v, names, SettingsOf(config)))

Spec == Init /\ [][Next]_vars

\* releases in sequence on a host that offers indexedDB, the tables having
\* initial records: every page load constructs the Database of the same
\* release again or of the next version, whose table list may differ
UpgradeInit == Init /\ indexedDB /\ config.tables[1].initData # << >>

\* the page is loaded again with the same release or the next one
Release(cfg) ==
  /\ cfg.version = config.version + 1 \/ cfg = config
  /\ NewDatabase(cfg)

UpgradeNext ==
  \/ \E r \in Requests : Connect(r)
  \/ \E r \in Requests : OnBlocked(r)
  \/ \E r \in Requests : OnUpgradeNeeded(r)
  \/ \E r \in Requests : OnAbort(r)
  \/ \E r \in Requests : OnSuccess(r)
  \/ \E c \in Requests : OnVersionChange(c)
  \/ OtherOpen
  \/ OtherClose
  \/ \E v \in Versions, names \in TableLists :
        Release(ConfigType(v, names, SettingsOf(config)))

UpgradeSpec == UpgradeInit /\ [][UpgradeNext]_vars

\* ------------------------------------------------------------------ Model
\* the object store the Model works on and the state of its connection
ModelStore == stores[model.table.name]
Closed == connections[model.db] # "open"

\* getPrimaryKey(this.tableClass): the decorated primary-key property of the
\* class, nothing ("") for a Model created from a table name
getPrimaryKey(m) == IF m.tableClass THEN m.table.primaryKey.name ELSE ""

\* {...data, ...(primary.key && {[primary.key]: request.result})}
withPrimaryKey(data, m, result) ==
  IF getPrimaryKey(m) # "" THEN [data EXCEPT ![getPrimaryKey(m)] = result] ELSE data

\* objectStore.get(pKey): << >> stands for undefined
StoreGet(store, pKey) ==
  IF \E r \in store.records : r[store.keyPath] = pKey
  THEN << CHOOSE r \in store.records : r[store.keyPath] = pKey >>
  ELSE << >>

\* objectStore.getAll(): the records in key order
RECURSIVE InKeyOrder(_, _)
InKeyOrder(records, keyPath) ==
  IF records = {} THEN << >>
  ELSE LET m == CHOOSE r \in records : \A q \in records : r[keyPath] <= q[keyPath]
       IN <<m>> \o InKeyOrder(records \ {m}, keyPath)

StoreGetAll(store) == InKeyOrder(store.records, store.keyPath)

\* objectStore.index(indexName).getAll(value)
IndexGetAll(store, indexName, value) ==
  InKeyOrder({ r \in store.records : r[indexName] = value }, store.keyPath)

\* objectStore.index(indexName).get(value): the first match
IndexGet(store, indexName, value) ==
  LET all == IndexGetAll(store, indexName, value)
  IN IF all = << >> THEN << >> ELSE << all[1] >>

\* objectStore.put(data)
StorePut(store, data) ==
  LET given == data[store.keyPath]
      key == IF given # 0 THEN given ELSE store.keyGen
      value == [data EXCEPT ![store.keyPath] = key]
  IN [store |-> [store EXCEPT
                   !.records = { r \in @ : r[store.keyPath] # key } \cup {value},
                   !.keyGen = IF key >= @ THEN key + 1 ELSE @],
      key |-> key]

\* a delete that removes nothing
StoreDeleteNothing(store, pKey) == store

\* objectStore.delete(pKey)
StoreDelete(store, pKey) ==
  [store EXCEPT !.records = { r \in @ : r[store.keyPath] # pKey }]

\* Object.assign(fetchedData, dataToUpdate)
ObjectAssign(target, source) ==
  [f \in Fields |-> IF source[f] # 0 THEN source[f] ELSE target[f]]

\* a where filter that asks for every where key to match
WhereFilterAll(data, where) ==
  SelectSeq(data, LAMBDA item :
     /\ \E key \in Fields : where[key] # 0
     /\ \A key \in Fields : where[key] # 0 => item[key] = where[key])

\* the where filter of select for a plain object: a record passes when one of
\* the where keys is in the record with the same value
WhereFilter(data, where) ==
  SelectSeq(data, LAMBDA item : \E key \in Fields :
                       where[key] # 0 /\ item[key] # 0 /\ item[key] = where[key])

\* new ArraySorter(items).sortBy({desc, keys: [key]}): a stable sort on one
\* key, ascending or descending; an unknown key leaves the order as it is
RECURSIVE SortInsert(_, _, _, _)
SortInsert(sorted, item, key, desc) ==
  IF sorted = << >> THEN << item >>
  ELSE LET last == sorted[Len(sorted)]
           before == IF desc THEN item[key] > last[key] ELSE item[key] < last[key]
       IN IF before
          THEN Append(SortInsert(SubSeq(sorted, 1, Len(sorted) - 1), item, key, desc), last)
          ELSE Append(sorted, item)

RECURSIVE ArraySorterSortBy(_, _, _)
ArraySorterSortBy(items, key, desc) ==
  IF items = << >> \/ key \notin Fields THEN items
  ELSE SortInsert(ArraySorterSortBy(SubSeq(items, 1, Len(items) - 1), key, desc),
                  items[Len(items)], key, desc)

\* the then-callback of select: result starts empty and is only filled by
\* the where branch; sortBy ("" when not given) and limit are applied when
\* they are in the options and truthy
SelectResult(data, hasWhere, where, sortBy, desc, hasLimit, limit) ==
  LET filtered == IF hasWhere THEN WhereFilter(data, where) ELSE << >>
      sorted == IF sortBy # "" THEN ArraySorterSortBy(filtered, sortBy, desc) ELSE filtered
  IN IF hasLimit /\ limit # 0 /\ limit < Len(sorted)
     THEN SubSeq(sorted, 1, limit) ELSE sorted

\* records the callers pass in: an optional key, an optional email
DataOf(k, e) ==
  [EmptyRecord EXCEPT ![StoreKeyPath(model.table)] = k, !["email"] = e]

\* operations take the slots in order, one operation per slot
Free(o) == ops[o].pc = "idle" /\ \A q \in OpIds : q < o => ops[q].pc # "idle"

\* number of accepted add requests that will draw a generated key
PendingAdds ==
  Cardinality({ o \in OpIds : ops[o].kind = "insert" /\ ops[o].pc = "req" })

\* the call has been made and the host has not finished its last request
InFlight(o) == ops[o].pc \in {"get", "req"}

\* the updateByPk calls on key that are in flight
UpdatesInFlight(key) ==
  { q \in OpIds : ops[q].kind = "updateByPk" /\ ops[q].key = key /\ InFlight(q) }

\* a call; overlaps keeps the updateByPk calls on its key that the caller did
\* not wait for
NewOp(kind, key, arg) ==
  [NoOp EXCEPT !.kind = kind, !.promise = "pending", !.key = key, !.arg = arg,
               !.overlaps = UpdatesInFlight(key)]

\* the executor threw or called reject before any request was made
Rejected(op, error) ==
  [op EXCEPT !.pc = "done", !.promise = "rejected", !.error = error]
\* a request was handed to the host
Requested(op) == [op EXCEPT !.pc = "req"]

\* Model.insert(data)
Insert(o, data) ==
  /\ model.db # 0 /\ Free(o)
  /\ ModelStore.keyGen + PendingAdds <= MaxKey
  /\ LET op == NewOp("insert", 0, data)
         verified == withTimestamps(data, model.table, now)
     IN IF verifyThrows(data, model.table) \/ Closed
           \/ StoreAdd(ModelStore, verified).error = "DataError"
        THEN /\ ops' = [ops EXCEPT ![o] = Rejected(op,
                           IF verifyThrows(data, model.table) THEN "ValidationError"
                           ELSE IF Closed THEN "InvalidStateError"
                           ELSE "DataError")]
             /\ UNCHANGED queue
        ELSE /\ ops' = [ops EXCEPT ![o] = Requested([op EXCEPT !.arg = verified,
                                                              !.result = <<data>>])]
             /\ queue' = Append(queue, o)
  /\ UNCHANGED <<indexedDB, version, stores, otherConn, config, connection,
                 connections, requests, now, model, callVars>>

\* the shape shared by the read operations and deleteByPk: db.transaction()
\* (or index()) throws inside the executor, which rejects the promise;
\* otherwise the request is handed to the host
Issued(o, op, throws) ==
  [ops EXCEPT ![o] = IF Closed THEN Rejected(op, "InvalidStateError")
                     ELSE IF throws THEN Rejected(op, "NotFoundError")
                     ELSE Requested(op)]
Queued(o, throws) == IF Closed \/ throws THEN queue ELSE Append(queue, o)

\* Model.selectByPk(pKey)
SelectByPk(o, pKey) ==
  /\ model.db # 0 /\ Free(o)
  /\ ops' = Issued(o, NewOp("selectByPk", pKey, EmptyRecord), FALSE)
  /\ queue' = Queued(o, FALSE)
  /\ UNCHANGED <<indexedDB, version, stores, otherConn, config, connection,
                 connections, requests, now, model, callVars>>

\* Model.selectByIndex(indexName, value): index() throws for an unknown index
SelectByIndex(o, indexName, value) ==
  /\ model.db # 0 /\ Free(o)
  /\ ops' = Issued(o, NewOp("selectByIndex", 0, [EmptyRecord EXCEPT ![indexName] = value]),
                   indexName \notin ModelStore.indexes)
  /\ queue' = Queued(o, indexName \notin ModelStore.indexes)
  /\ UNCHANGED <<indexedDB, version, stores, otherConn, config, connection,
                 connections, requests, now, model, callVars>>

\* Model.selectByIndexAll(indexName, value)
SelectByIndexAll(o, indexName, value) ==
  /\ model.db # 0 /\ Free(o)
  /\ ops' = Issued(o, NewOp("selectByIndexAll", 0, [EmptyRecord EXCEPT ![indexName] = value]),
                   indexName \notin ModelStore.indexes)
  /\ queue' = Queued(o, indexName \notin ModelStore.indexes)
  /\ UNCHANGED <<indexedDB, version, stores, otherConn, config, connection,
                 connections, requests, now, model, callVars>>

\* Model.selectAll()
SelectAll(o) ==
  /\ model.db # 0 /\ Free(o)
  /\ ops' = Issued(o, NewOp("selectAll", 0, EmptyRecord), FALSE)
  /\ queue' = Queued(o, FALSE)
  /\ UNCHANGED <<indexedDB, version, stores, otherConn, config, connection,
                 connections, requests, now, model, callVars>>

\* Model.select(options): selectAll() first, the options are used afterwards
Select(o, hasWhere, where, sortBy, desc, hasLimit, limit) ==
  /\ model.db # 0 /\ Free(o)
  /\ ops' = Issued(o, [NewOp("select", 0, where) EXCEPT
                         !.hasWhere = hasWhere, !.sortBy = sortBy,
                         !.desc = desc, !.hasLimit = hasLimit,
                         !.limit = limit], FALSE)
  /\ queue' = Queued(o, FALSE)
  /\ UNCHANGED <<indexedDB, version, stores, otherConn, config, connection,
                 connections, requests, now, model, callVars>>

\* Model.deleteByPk(pKey)
DeleteByPk(o, pKey) ==
  /\ model.db # 0 /\ Free(o)
  /\ ops' = Issued(o, NewOp("deleteByPk", pKey, EmptyRecord), FALSE)
  /\ queue' = Queued(o, FALSE)
  /\ UNCHANGED <<indexedDB, version, stores, otherConn, config, connection,
                 connections, requests, now, model, callVars>>

\* Model.updateByPk(pKey, dataToUpdate): starts with selectByPk(pKey); when
\* that promise is rejected nothing settles the promise of updateByPk
UpdateByPk(o, pKey, dataToUpdate) ==
  /\ model.db # 0 /\ Free(o)
  /\ LET op == [NewOp("updateByPk", pKey, dataToUpdate)
                 EXCEPT !.dataToUpdate = dataToUpdate]
     IN IF Closed
        THEN /\ ops' = [ops EXCEPT ![o] = [op EXCEPT !.pc = "stuck"]]
             /\ UNCHANGED queue
        ELSE /\ ops' = [ops EXCEPT ![o] = [op EXCEPT !.pc = "get"]]
             /\ queue' = Append(queue, o)
  /\ UNCHANGED <<indexedDB, version, stores, otherConn, config, connection,
                 connections, requests, now, model, callVars>>

\* the then-callback of updateByPk, run with the fetched record
UpdateFetched(op, fetchedData) ==
  IF Closed \/ fetchedData = << >>
  THEN [op EXCEPT !.pc = "stuck"]           \* the callback throws
  ELSE LET merged == ObjectAssign(fetchedData[1], op.arg)
           data == IF model.table.timestamps
                   THEN [merged EXCEPT !["createdAt"] = now]
                   ELSE merged
       IN [op EXCEPT !.pc = "req", !.arg = data]

Resolved(op, result, resultKey) ==
  [op EXCEPT !.pc = "done", !.promise = "resolved", !.result = result,
             !.resultKey = resultKey]

\* the host runs the oldest accepted request and fires its success event (or
\* its error event when the request cannot be carried out)
OnRequestSuccess(o) ==
  /\ queue # << >> /\ o = Head(queue)
  /\ LET op == ops[o]
         store == ModelStore
     IN CASE op.kind = "insert" ->
               LET a == StoreAdd(store, op.arg)
               IN IF a.error # "none"
                  THEN /\ ops' = [ops EXCEPT ![o] = Rejected(op, a.error)]
                       /\ queue' = Tail(queue)
                       /\ UNCHANGED stores
                  ELSE /\ ops' = [ops EXCEPT ![o] =
                              Resolved(op, <<withPrimaryKey(op.result[1], model, a.key)>>, 0)]
                       /\ queue' = Tail(queue)
                       /\ stores' = [stores EXCEPT ![model.table.name] = a.store]
          [] op.kind = "selectByPk" ->
               /\ ops' = [ops EXCEPT ![o] = Resolved(op, StoreGet(store, op.key), 0)]
               /\ queue' = Tail(queue)
               /\ UNCHANGED stores
          [] op.kind = "selectByIndex" ->
               /\ ops' = [ops EXCEPT ![o] =
                            Resolved(op, IndexGet(store, "email", op.arg["email"]), 0)]
               /\ queue' = Tail(queue)
               /\ UNCHANGED stores
          [] op.kind = "selectByIndexAll" ->
               /\ ops' = [ops EXCEPT ![o] =
                            Resolved(op, IndexGetAll(store, "email", op.arg["email"]), 0)]
               /\ queue' = Tail(queue)
               /\ UNCHANGED stores
          [] op.kind = "selectAll" ->
               /\ ops' = [ops EXCEPT ![o] = Resolved(op, StoreGetAll(store), 0)]
               /\ queue' = Tail(queue)
               /\ UNCHANGED stores
          [] op.kind = "select" ->
               /\ ops' = [ops EXCEPT ![o] =
                    Resolved(op, SelectResult(StoreGetAll(store), op.hasWhere, op.arg,
                                              op.sortBy, op.desc, op.hasLimit,
                                              op.limit), 0)]
               /\ queue' = Tail(queue)
               /\ UNCHANGED stores
          [] op.kind = "deleteByPk" ->
               /\ ops' = [ops EXCEPT ![o] = Resolved(op, << >>, op.key)]
               /\ queue' = Tail(queue)
               /\ stores' = [stores EXCEPT ![model.table.name] = StoreDelete(store, op.key)]
          [] op.kind = "updateByPk" /\ op.pc = "get" ->
               LET next == UpdateFetched(op, StoreGet(store, op.key))
               IN /\ ops' = [ops EXCEPT ![o] = next]
                  /\ queue' = IF next.pc = "req" THEN Append(Tail(queue), o) ELSE Tail(queue)
                  /\ UNCHANGED stores
          [] op.kind = "updateByPk" /\ op.pc = "req" ->
               LET p == StorePut(store, op.arg)
               IN /\ ops' = [ops EXCEPT ![o] =
                       Resolved(op, <<withPrimaryKey(op.arg, model, p.key)>>, 0)]
                  /\ queue' = Tail(queue)
                  /\ stores' = [stores EXCEPT ![model.table.name] = p.store]
  /\ UNCHANGED <<indexedDB, version, otherConn, config, connection,
                 connections, requests, now, model, callVars>>

\* the host fails the oldest accepted request (storage failure): onerror
\* rejects, except for the fetch of updateByPk, whose rejection is dropped
OnRequestError(o) ==
  /\ queue # << >> /\ o = Head(queue)
  /\ ops' = [ops EXCEPT ![o] =
               IF @.kind = "updateByPk" /\ @.pc = "get"
               THEN [@ EXCEPT !.pc = "stuck"]
               ELSE Rejected(@, "request.error")]
  /\ queue' = Tail(queue)
  /\ UNCHANGED <<indexedDB, version, stores, otherConn, config, connection,
                 connections, requests, now, model, callVars>>

\* time passes
Tick ==
  /\ now < MaxTime
  /\ now' = now + 1
  /\ UNCHANGED <<indexedDB, version, stores, otherConn, config, connection,
                 connections, requests, model, ops, queue, callVars>>

\* the state after `new Database(config)`, connect() resolved on a fresh
\* database and useModel(table) for the one table of the configuration
ModelInit ==
  /\ indexedDB = TRUE
  /\ otherConn = "none"
  /\ \E s \in TableSettings :
       LET cfg == ConfigType(1, <<1>>, s)
           m == onUpgradeNeeded([n \in TableNames |-> NoStore], cfg, 0, 1)
       IN /\ ~m.failed
          /\ config = cfg
          /\ stores = m.db
          /\ \E c \in BOOLEAN :
               model = [table |-> cfg.tables[1], tableClass |-> c, db |-> 1]
  /\ stores[1].exists
  /\ version = 1
  /\ connection = 1
  /\ connections = [c \in Requests |-> IF c = 1 THEN "open" ELSE "none"]
  /\ requests = [r \in Requests |->
                   IF r = 1 THEN [NoRequest EXCEPT !.pc = "done", !.promise = "resolved"]
                   ELSE NoRequest]
  /\ now = 1
  /\ ops = [o \in OpIds |-> NoOp]
  /\ queue = << >>
  /\ instance = Constructed(1)
  /\ use = [target |-> [kind |-> IF model.tableClass THEN "function" ELSE "string",
                        name |-> 1],
            outcome |-> "model"]

ModelNext ==
  \/ \E o \in OpIds, k \in 0..MaxKey, e \in 0..1 : Insert(o, DataOf(k, e))
  \/ \E o \in OpIds, k \in Keys : SelectByPk(o, k)
  \/ \E o \in OpIds, i \in {"email", "uid"} : SelectByIndex(o, i, 1)
  \/ \E o \in OpIds, i \in {"email", "uid"} : SelectByIndexAll(o, i, 1)
  \/ \E o \in OpIds : SelectAll(o)
  \/ \E o \in OpIds, w \in BOOLEAN, l \in 0..1 :
        Select(o, w, [EmptyRecord EXCEPT !["email"] = 1], "", FALSE, l # 0, l)
  \/ \E o \in OpIds, k \in Keys, e \in 1..2 :
        UpdateByPk(o, k, [EmptyRecord EXCEPT !["email"] = e])
  \/ \E o \in OpIds, k \in Keys : DeleteByPk(o, k)
  \/ \E o \in OpIds : OnRequestSuccess(o)
  \/ \E o \in OpIds : OnRequestError(o)
  \/ \E c \in Requests : OnVersionChange(c)
  \/ Tick

ModelSpec == ModelInit /\ [][ModelNext]_vars

\* the operations that work on one primary key, the time standing still
KeyedNext ==
  \/ \E o \in OpIds, k \in 0..MaxKey : Insert(o, DataOf(k, 0))
  \/ \E o \in OpIds, k \in Keys : SelectByPk(o, k)
  \/ \E o \in OpIds, k \in Keys, f \in {"email", "name"} :
        UpdateByPk(o, k, [EmptyRecord EXCEPT ![f] = 1])
  \/ \E o \in OpIds, k \in Keys : DeleteByPk(o, k)
  \/ \E o \in OpIds : OnRequestSuccess(o)
  \/ \E o \in OpIds : OnRequestError(o)
  \/ \E c \in Requests : OnVersionChange(c)

KeyedSpec == ModelInit /\ [][KeyedNext]_vars

\* ------------------------------------- Database: constructor and useModel
\* typeof of the elements of config.tables, one per table
TableStyles(n) == [1..n -> {"function", "object"}]

\* a constructor whose style check lets every tables array pass
MixedStyleNever(tables) == FALSE

\* the style check of the constructor: neither every element is a class nor
\* every element is an object
MixedStyle(tables) ==
  LET hasMetadata == \A k \in 1..Len(tables) : tables[k] = "function"
      hasPlainConfig == \A k \in 1..Len(tables) : tables[k] = "object"
  IN ~hasMetadata /\ ~hasPlainConfig

\* new Database(config): cfg is the plain configuration the tables stand for
\* (classes are serialized to it), tables the typeof of each element
Construct(cfg, tables) ==
  /\ instance.state = "none"
  /\ IF MixedStyle(tables)
     THEN /\ instance' = [state |-> "threw", tables |-> tables]
          /\ UNCHANGED config
     ELSE /\ instance' = [state |-> "constructed", tables |-> tables]
          /\ config' = cfg
  /\ UNCHANGED <<indexedDB, version, stores, otherConn, connection, connections,
                 requests, now, modelVars, use>>

\* this.tables: the names of the configured tables
DatabaseTables == [k \in 1..Len(config.tables) |-> config.tables[k].name]
includes(seq, x) == \E k \in 1..Len(seq) : seq[k] = x

\* what useModel can be called with: a string (name 0 is the empty string)
\* or a class (name 0: a class that carries no table name)
Targets == [kind : {"string", "function"}, name : 0..NumTables]

\* getClassMetadata(target).name: the table name the class was annotated with
getClassMetadataName(target) == target.name

\* a useModel that does not look at the connection
NotConnectedNever == FALSE

\* this.connection === null
NotConnected == connection = 0

\* Database.useModel(target)
UseModel(target) ==
  /\ instance.state = "constructed"
  /\ use.outcome = "none"
  /\ LET tableName == IF target.kind = "string" THEN target.name
                      ELSE getClassMetadataName(target)
         outcome == IF NotConnected THEN "not-connected"
                    ELSE IF tableName = 0 THEN "invalid"
                    ELSE IF ~includes(DatabaseTables, tableName) THEN "not-found"
                    ELSE "model"
         table == config.tables[CHOOSE k \in 1..Len(config.tables) :
                                  outcome = "model" => config.tables[k].name = tableName]
     IN /\ use' = [target |-> target, outcome |-> outcome]
        /\ model' = IF outcome = "model"
                    THEN [table |-> table, tableClass |-> target.kind = "function",
                          db |-> connection]
                    ELSE model
  /\ UNCHANGED <<indexedDB, version, stores, otherConn, config, connection,
                 connections, requests, now, ops, queue, instance>>

\* this.config before the constructor has assigned it
NoConfig == [version |-> 1, tables |-> << NoModel.table >>]

\* a page load on a host without the database: nothing constructed yet
InstanceInit ==
  /\ indexedDB = TRUE
  /\ version = 0
  /\ stores = [n \in TableNames |-> NoStore]
  /\ otherConn = "none"
  /\ config = NoConfig
  /\ connection = 0
  /\ connections = [c \in Requests |-> "none"]
  /\ requests = [r \in Requests |-> NoRequest]
  /\ now = 1
  /\ model = NoModel
  /\ ops = [o \in OpIds |-> NoOp]
  /\ queue = << >>
  /\ instance = [state |-> "none", tables |-> << >>]
  /\ use = NoUse

\* the table settings with an auto-increment key
InstanceSettings == { s \in TableSettings : s.primaryKey.autoIncrement # "false" }

\* the table lists in name order
InstanceTableLists == { SortedSeq(S) : S \in (SUBSET TableNames) \ {{}} }

InstanceNext ==
  \/ \E v \in Versions, names \in InstanceTableLists, s \in InstanceSettings :
        \E tables \in TableStyles(Len(names)) : Construct(ConfigType(v, names, s), tables)
  \/ \E r \in Requests : Connect(r)
  \/ \E r \in Requests : OnBlocked(r)
  \/ \E r \in Requests : OnUpgradeNeeded(r)
  \/ \E r \in Requests : OnAbort(r)
  \/ \E r \in Requests : OnSuccess(r)
  \/ \E c \in Requests : OnVersionChange(c)
  \/ OtherOpen
  \/ OtherClose
  \/ \E target \in Targets : UseModel(target)

InstanceSpec == InstanceInit /\ [][InstanceNext]_vars

\* ------------------------------------------------ select over a filled table
\* the rows a table may hold: key k with any email and uid
Rows(k) == { [EmptyRecord EXCEPT !["id"] = k, !["email"] = e, !["uid"] = u] :
               e \in 0..2, u \in 0..1 }

\* tables of at most MaxRows rows with distinct keys
RECURSIVE RowSets(_)
RowSets(n) ==
  IF n = 0 THEN { {} }
  ELSE RowSets(n - 1) \cup { S \cup {r} : S \in RowSets(n - 1), r \in Rows(n) }

\* the limit option: not given, or given as 0, 1 or 2
Limits == { [given |-> FALSE, n |-> 0] } \cup { [given |-> TRUE, n |-> l] : l \in 0..2 }

\* OptionsType: where (a plain object, {} included), sortBy, orderByDESC, limit
SelectOptions ==
  { [hasWhere |-> FALSE, where |-> EmptyRecord, sortBy |-> sb, desc |-> d,
     hasLimit |-> l.given, limit |-> l.n] :
      sb \in {"", "email"}, d \in BOOLEAN, l \in Limits } \cup
  { [hasWhere |-> TRUE, where |-> [EmptyRecord EXCEPT !["email"] = e, !["uid"] = u],
     sortBy |-> sb, desc |-> d, hasLimit |-> l.given, limit |-> l.n] :
      e \in 0..2, u \in 0..1, sb \in {"", "email"}, d \in BOOLEAN, l \in Limits }

\* a connected Model on a table with the default key path whose rows earlier
\* inserts have left behind
SelectInit ==
  /\ indexedDB = TRUE
  /\ otherConn = "none"
  /\ config = [version |-> 1, tables |-> << NoModel.table >>]
  /\ \E rows \in RowSets(MaxRows) :
       stores = [n \in TableNames |->
                  IF n = 1
                  THEN [createObjectStore("id", TRUE) EXCEPT
                          !.records = rows, !.keyGen = MaxRows + 1]
                  ELSE NoStore]
  /\ model = [table |-> config.tables[1], tableClass |-> FALSE, db |-> 1]
  /\ version = 1
  /\ connection = 1
  /\ connections = [c \in Requests |-> IF c = 1 THEN "open" ELSE "none"]
  /\ requests = [r \in Requests |->
                   IF r = 1 THEN [NoRequest EXCEPT !.pc = "done", !.promise = "resolved"]
                   ELSE NoRequest]
  /\ now = 1
  /\ ops = [o \in OpIds |-> NoOp]
  /\ queue = << >>
  /\ instance = Constructed(1)
  /\ use = [target |-> [kind |-> "string", name |-> 1], outcome |-> "model"]

SelectNext ==
  \/ \E opt \in SelectOptions :
        Select(1, opt.hasWhere, opt.where, opt.sortBy, opt.desc, opt.hasLimit, opt.limit)
  \/ OnRequestSuccess(1)

SelectSpec == SelectInit /\ [][SelectNext]_vars

\* ------------------------------------------------- Database: properties
ConfigNames == { config.tables[k].name : k \in 1..Len(config.tables) }

\* C1: whenever the host has fired 'blocked' for the open request of a
\* connect() call, the promise of that call is rejected
C1_BlockedRejects ==
  \A r \in Requests : requests[r].blocked => requests[r].promise = "rejected"

\* C2: after an upgrade from a stored version > 0, no table that existed
\* before and is absent from the new configuration still exists
C2_RemovedTablesDropped ==
  \A r \in Requests :
    (requests[r].pc = "upgraded" /\ requests[r].oldVersion > 0) =>
      \A n \in requests[r].oldStores : n \notin ConfigNames => ~stores[n].exists

\* C3: an upgrade from a stored version > 0 whose configuration retains an
\* existing table raises no error, leaves the configured indexes on that table
\* and goes on with the remaining tables of the configuration
C3_RetainedTableReused ==
  \A r \in Requests :
    (/\ requests[r].pc = "upgraded"
     /\ requests[r].oldVersion > 0
     /\ config.tables[1].initData = << >>
     /\ requests[r].oldStores \cap ConfigNames # {}) =>
      /\ ~requests[r].threw
      /\ \A k \in 1..Len(config.tables) :
           /\ stores[config.tables[k].name].exists
           /\ config.tables[k].indexes \subseteq stores[config.tables[k].name].indexes

\* C4: when connect() resolves after a migration ran, every table of the
\* configuration exists in the store
C4_AllTablesExist ==
  [][\A r \in Requests :
       (requests[r].pc = "upgraded" /\ requests'[r].promise = "resolved") =>
         \A k \in 1..Len(config.tables) : stores'[config.tables[k].name].exists]_vars

\* C5: a table created by the migration has the configured key path
\* (default 'id') and the configured auto-increment flag (default true)
C5_CreatedAsConfigured ==
  \A r \in Requests :
    requests[r].pc = "upgraded" =>
      \A k \in 1..Len(config.tables) :
        LET table == config.tables[k]
        IN (table.name \notin requests[r].oldStores /\ stores[table.name].exists) =>
             /\ stores[table.name].keyPath =
                  (IF table.primaryKey.name = "" THEN "id" ELSE table.primaryKey.name)
             /\ stores[table.name].autoIncrement =
                  (table.primaryKey.autoIncrement # "false")

\* C9: when the migration procedure raised an error, connect() does not
\* resolve as if the migration had completed
C9_MigrationErrorSurfaced ==
  [][\A r \in Requests :
       (requests[r].pc = "upgraded" /\ requests[r].threw) =>
         requests'[r].promise # "resolved"]_vars

\* C10: a version-change notification delivered to an open connection of
\* this instance closes that connection
C10_NotifiedConnectionClosed ==
  [][\A c \in Requests : OnVersionChange(c) => connections'[c] = "closed"]_vars

\* C11: at every moment at most one connection opened by this instance is
\* open
C11_AtMostOneOpenConnection == Cardinality(OwnOpen) <= 1

\* ---------------------------------------------------- Model: properties
\* C6: on a table with timestamps the record updateByPk hands to put has
\* updatedAt set to the time of the update and createdAt as fetched
C6_UpdateSetsUpdatedAt ==
  [][\A o \in OpIds :
       (/\ ops[o].kind = "updateByPk" /\ ops[o].pc = "get"
        /\ ops'[o].pc = "req"
        /\ model.table.timestamps) =>
         /\ ops'[o].arg["updatedAt"] = now
         /\ ops'[o].arg["createdAt"] =
              StoreGet(ModelStore, ops[o].key)[1]["createdAt"]]_vars

\* C7: when the fetch of updateByPk finds no record for the key, the promise
\* of updateByPk is rejected and nothing is written
C7_UpdateMissingKeyRejects ==
  [][\A o \in OpIds :
       (/\ ops[o].kind = "updateByPk" /\ ops[o].pc = "get"
        /\ OnRequestSuccess(o)
        /\ StoreGet(ModelStore, ops[o].key) = << >>) =>
         /\ ops'[o].promise = "rejected"
         /\ stores' = stores]_vars

\* C8: once the host has fired success or error for every request it
\* accepted, every promise a Model operation returned is settled
C8_EveryPromiseSettles ==
  queue = << >> => \A o \in OpIds : ops[o].promise # "pending"

\* record r is entry k of the initData of table, with the timestamps and the
\* key the store gave it
IsInitialRecord(r, table) ==
  \E k \in 1..Len(table.initData) :
    \A f \in Fields \ {StoreKeyPath(table), "createdAt", "updatedAt"} :
      r[f] = table.initData[k][f]

\* C18: no step of a connect() alters or drops the records of a configured
\* table that exists already, whatever the versions; records enter a table
\* only in the upgrade that creates it, and they are its initial records
C18_InitialRecordsOnlyOnCreation ==
  [][version' # 0 =>
       \A k \in 1..Len(config.tables) :
         LET n == config.tables[k].name
         IN /\ stores[n].exists =>
                 /\ stores'[n].exists
                 /\ stores'[n].records = stores[n].records
            /\ ~stores[n].exists =>
                 \A r \in stores'[n].records : IsInitialRecord(r, config.tables[k])
    ]_vars

\* an upgrade from a stored version > 0 has run over a retained table that
\* has initial records configured and holds records
C18_Witness ==
  \E r \in Requests :
    /\ requests[r].pc = "upgraded"
    /\ requests[r].oldVersion > 0
    /\ \E k \in 1..Len(config.tables) :
         /\ config.tables[k].name \in requests[r].oldStores
         /\ config.tables[k].initData # << >>
         /\ stores[config.tables[k].name].records # {}

\* the select operations that have resolved
ResolvedSelects ==
  { o \in OpIds : ops[o].kind = "select" /\ ops[o].promise = "resolved" }

\* the first n elements of a sequence
Truncated(seq, n) == [i \in 1..(IF n < Len(seq) THEN n ELSE Len(seq)) |-> seq[i]]

\* C12: select resolves with the selectAll() result passed through the where
\* filter, the sort and the limit in this order, every step being the
\* identity when its option is not given
C12_SelectComposes ==
  \A o \in ResolvedSelects :
    LET all == StoreGetAll(ModelStore)
        filtered == IF ops[o].hasWhere THEN WhereFilter(all, ops[o].arg) ELSE all
        sorted == IF ops[o].sortBy # ""
                  THEN ArraySorterSortBy(filtered, ops[o].sortBy, ops[o].desc)
                  ELSE filtered
        limited == IF ops[o].hasLimit THEN Truncated(sorted, ops[o].limit) ELSE sorted
    IN ops[o].result = limited

\* a stored record matches a where object when one of the where keys is in
\* the record with the same value
Matches(r, where) == \E f \in Fields : where[f] # 0 /\ r[f] = where[f]

\* C13: select with a plain-object where (and no sortBy, no limit) resolves
\* with exactly the stored records that match at least one where key, each
\* once, in the order of selectAll
C13_WhereIsOr ==
  \A o \in ResolvedSelects :
    (ops[o].hasWhere /\ ops[o].sortBy = "" /\ ~ops[o].hasLimit) =>
      LET res == ops[o].result
          all == StoreGetAll(ModelStore)
      IN /\ { res[i] : i \in 1..Len(res) } =
              { r \in ModelStore.records : Matches(r, ops[o].arg) }
         /\ \A i, j \in 1..Len(res) :
              i < j => \E a, b \in 1..Len(all) :
                         a < b /\ all[a] = res[i] /\ all[b] = res[j]

\* a where with two keys has selected a record that matches only one of them
\* and has left out a record that matches neither
C13_Witness ==
  \E o \in ResolvedSelects :
    /\ ops[o].hasWhere /\ ops[o].sortBy = "" /\ ~ops[o].hasLimit
    /\ ops[o].arg["email"] # 0 /\ ops[o].arg["uid"] # 0
    /\ \E i \in 1..Len(ops[o].result) :
         ops[o].result[i]["email"] # ops[o].arg["email"]
    /\ Len(ops[o].result) >= 2
    /\ Len(ops[o].result) < Cardinality(ModelStore.records)
\* the step in which the request of operation o succeeds and its promise is
\* resolved
RequestSucceeds(o, kind) ==
  /\ ops[o].kind = kind /\ ops[o].pc = "req"
  /\ ops'[o].promise = "resolved"

\* C14: when insert of a record without primary key succeeds on an
\* auto-increment table, the promise resolves with the input plus the
\* generated key, and the record stored under that key (what selectByPk
\* yields) is the input plus the key and the timestamps; for a Model made
\* from a table name as for one made from a class
C14_InsertReturnsGeneratedKey ==
  [][\A o \in OpIds :
       (/\ RequestSucceeds(o, "insert")
        /\ ModelStore.autoIncrement
        /\ ~HasKey(ops[o].result[1], ModelStore.keyPath)) =>
         LET input == ops[o].result[1]
             kp == ModelStore.keyPath
             new == stores'[model.table.name].records \ ModelStore.records
         IN /\ Cardinality(new) = 1
            /\ \A r \in new :
                 /\ r[kp] # 0
                 /\ ops'[o].result = << [input EXCEPT ![kp] = r[kp]] >>
                 /\ StoreGet(stores'[model.table.name], r[kp]) = << r >>
                 /\ \A f \in Fields \ {kp, "createdAt", "updatedAt"} : r[f] = input[f]
                 /\ model.table.timestamps => r["createdAt"] # 0 /\ r["updatedAt"] # 0
    ]_vars
\* the step in which insert(data) is called in slot o
InsertCalled(o) == ops[o].pc = "idle" /\ ops'[o].kind = "insert"

\* C15: insert of a record without the primary-key field on a table whose
\* primaryKey.autoIncrement is false rejects with the validation error, hands
\* no request to the host and leaves the tables as they were
C15_InsertWithoutKeyRejects ==
  [][\A o \in OpIds :
       (/\ InsertCalled(o)
        /\ model.table.primaryKey.autoIncrement = "false"
        /\ ops'[o].arg[model.table.primaryKey.name] = 0) =>
         /\ ops'[o].promise = "rejected"
         /\ ops'[o].error = "ValidationError"
         /\ queue' = queue
         /\ stores' = stores
    ]_vars

\* such an insert has been made on an open connection, after an insert with
\* a key was accepted on the same table
C15_Witness ==
  /\ model.table.primaryKey.autoIncrement = "false"
  /\ ~Closed
  /\ ops[1].kind = "insert" /\ ops[1].promise = "resolved"
  /\ ops[2].kind = "insert" /\ ops[2].promise = "rejected"
  /\ ops[2].arg[model.table.primaryKey.name] = 0
\* no operation but o has been called
OnlyOperation(o) == \A q \in OpIds \ {o} : ops[q].pc = "idle"

\* C16: when updateByPk(key, {email: v}) is the only operation and its put
\* succeeds, the record stored under key (what selectByPk(key) yields) has
\* email = v and every other field, createdAt included, as before the update
C16_UpdateKeepsOtherFields ==
  [][\A o \in OpIds :
       (RequestSucceeds(o, "updateByPk") /\ OnlyOperation(o)) =>
         LET old == StoreGet(ModelStore, ops[o].key)
             new == StoreGet(stores'[model.table.name], ops[o].key)
         IN /\ old # << >> /\ new # << >>
            /\ new[1]["email"] = ops[o].arg["email"]
            /\ \A f \in Fields \ {"email"} : new[1][f] = old[1][f]
    ]_vars
\* operation d is a deleteByPk(key) called before operation o that has
\* resolved, and no insert or updateByPk was called before o
DeletedBefore(d, o, key) ==
  /\ d < o
  /\ ops[d].kind = "deleteByPk" /\ ops[d].key = key /\ ops[d].promise = "resolved"
  /\ \A q \in OpIds : q < o => ops[q].kind \notin {"insert", "updateByPk"}

\* C17: when the request of deleteByPk(key) succeeds the promise resolves
\* with key, no record with key is left, the other records stay, and a table
\* without such a record is left as it is (a second delete changes nothing);
\* a selectByPk(key) that follows a resolved deleteByPk(key) with no write in
\* between resolves with undefined
C17_DeleteByPk ==
  [][\A o \in OpIds :
       /\ RequestSucceeds(o, "deleteByPk") =>
            LET kp == ModelStore.keyPath
                old == ModelStore.records
                new == stores'[model.table.name].records
            IN /\ ops'[o].resultKey = ops[o].key
               /\ \A r \in new : r[kp] # ops[o].key
               /\ new = { r \in old : r[kp] # ops[o].key }
               /\ (\A r \in old : r[kp] # ops[o].key) => stores' = stores
       /\ (/\ RequestSucceeds(o, "selectByPk")
           /\ \E d \in OpIds : DeletedBefore(d, o, ops[o].key)) =>
            ops'[o].result = << >>
    ]_vars

\* deleteByPk(key) of a record the table was created with has resolved with
\* key, and the selectByPk(key) called next has resolved with undefined
C17_Witness ==
  /\ model.table.initData # << >>
  /\ ops[1].kind = "deleteByPk" /\ ops[1].promise = "resolved"
  /\ ops[1].key = model.table.initData[1][ModelStore.keyPath]
  /\ ops[1].resultKey = ops[1].key
  /\ ops[2].kind = "selectByPk" /\ ops[2].promise = "resolved"
  /\ ops[2].key = ops[1].key /\ ops[2].result = << >>
\* the step in which useModel is called
UseModelCalled == use.outcome = "none" /\ use'.outcome # "none"

\* a connect() call of this instance has resolved
ConnectResolved == \E r \in Requests : requests[r].promise = "resolved"

\* C19: useModel returns a Model exactly when a connect() has resolved on
\* this instance and the table name of the target is in the registry, the
\* Model being bound to the current connection and that table; before any
\* connect() has resolved it throws the not-connected error, after that a
\* name outside the registry gets the not-found error, and a call that
\* throws creates no Model
C19_UseModel ==
  [][UseModelCalled =>
       LET name == use'.target.name
           known == name # 0 /\ name \in ConfigNames
       IN /\ (use'.outcome = "model") <=> (ConnectResolved /\ known)
          /\ ~ConnectResolved => use'.outcome = "not-connected"
          /\ (ConnectResolved /\ name # 0 /\ name \notin ConfigNames) =>
               use'.outcome = "not-found"
          /\ use'.outcome # "model" => model' = model
          /\ use'.outcome = "model" =>
               /\ model'.table.name = name
               /\ model'.table \in { config.tables[k] : k \in 1..Len(config.tables) }
               /\ model'.db = connection
    ]_vars

\* useModel was called with a name outside the registry after connect()
\* resolved, and threw the not-found error
C19_Witness ==
  /\ use.outcome = "not-found"
  /\ ConnectResolved
  /\ use.target.name \notin ConfigNames
  /\ model = NoModel

\* C20: a Database whose tables array holds both a class and a plain object
\* is never constructed: the constructor threw, and no connect() call, open
\* request or connection of that instance exists
C20_MixedTablesThrow ==
  (\E i, j \in 1..Len(instance.tables) :
      instance.tables[i] = "function" /\ instance.tables[j] = "object") =>
    /\ instance.state = "threw"
    /\ \A r \in Requests : requests[r] = NoRequest /\ connections[r] = "none"
    /\ connection = 0

\* the constructor threw on a mixed tables array, and the host went on (the
\* database was opened from another tab)
C20_Witness ==
  /\ instance.state = "threw"
  /\ \E i, j \in 1..Len(instance.tables) : instance.tables[i] # instance.tables[j]
  /\ otherConn = "open"
\* C21: a select with a where and a limit N >= 0 (N = 0 included) resolves
\* with at most N records, the first N of the filtered and sorted sequence
C21_LimitTruncates ==
  \A o \in ResolvedSelects :
    (ops[o].hasWhere /\ ops[o].hasLimit) =>
      LET filtered == WhereFilter(StoreGetAll(ModelStore), ops[o].arg)
          sorted == IF ops[o].sortBy # ""
                    THEN ArraySorterSortBy(filtered, ops[o].sortBy, ops[o].desc)
                    ELSE filtered
      IN /\ Len(ops[o].result) <= ops[o].limit
         /\ ops[o].result = Truncated(sorted, ops[o].limit)
\* record r of a store is the initial record data, the timestamps and a
\* generated key aside
StoredAs(r, data, keyPath) ==
  \A f \in Fields \ {"createdAt", "updatedAt"} :
    (f = keyPath /\ data[f] = 0) \/ r[f] = data[f]

\* C22: after the upgrade that creates the database, every table of the
\* configuration exists, holds every initial record that satisfies the
\* primary-key invariant, and holds none that violates it
C22_OnlyOffendingRecordSkipped ==
  \A r \in Requests :
    (requests[r].pc = "upgraded" /\ requests[r].oldStores = {}) =>
      \A k \in 1..Len(config.tables) :
        LET table == config.tables[k]
            store == stores[table.name]
        IN /\ store.exists
           /\ \A j \in 1..Len(table.initData) :
                IF verifyThrows(table.initData[j], table)
                THEN \A rec \in store.records :
                       ~StoredAs(rec, table.initData[j], store.keyPath)
                ELSE \E rec \in store.records :
                       StoredAs(rec, table.initData[j], store.keyPath)
\* updateByPk calls o1 and o2 on the same key change disjoint fields
DisjointUpdates(o1, o2) ==
  /\ o1 # o2
  /\ ops[o1].kind = "updateByPk" /\ ops[o2].kind = "updateByPk"
  /\ ops[o1].key = ops[o2].key
  /\ \A f \in Fields : ops[o1].dataToUpdate[f] = 0 \/ ops[o2].dataToUpdate[f] = 0

\* C23: when updateByPk call o2 was made while call o1 on the same key was in
\* flight, the two change disjoint fields and both promises have resolved
\* (these being the only operations), the stored record carries the new
\* value of both fields
C23_NoLostUpdate ==
  \A o1, o2 \in OpIds :
    ( /\ DisjointUpdates(o1, o2) /\ o1 \in ops[o2].overlaps
      /\ ops[o1].promise = "resolved" /\ ops[o2].promise = "resolved"
      /\ \A o \in OpIds \ {o1, o2} : ops[o].kind = "none" ) =>
      LET stored == StoreGet(ModelStore, ops[o1].key)
      IN /\ stored # << >>
         /\ \A f \in Fields :
              /\ ops[o1].dataToUpdate[f] # 0 =>
                   stored[1][f] = ops[o1].dataToUpdate[f]
              /\ ops[o2].dataToUpdate[f] # 0 =>
                   stored[1][f] = ops[o2].dataToUpdate[f]

\* the promise of the operation is resolved or rejected
Settled(o) == ops[o].promise \in {"resolved", "rejected"}

\* deleteByPk d was issued on the key of updateByPk u while u was in flight
DeleteDuringUpdate(u, d) ==
  /\ ops[d].kind = "deleteByPk"
  /\ u \in ops[d].overlaps

\* C24: when deleteByPk(key) was issued while an updateByPk(key, ...) was in
\* flight and has removed the record (its promise is resolved), then once the
\* promise of the update has settled too, with no insert made, the table
\* holds no record with that key (selectByPk(key) gives undefined)
C24_DeleteNotUndone ==
  \A u, d \in OpIds :
    ( /\ DeleteDuringUpdate(u, d)
      /\ Settled(u) /\ ops[d].promise = "resolved"
      /\ \A o \in OpIds : ops[o].kind # "insert" ) =>
      StoreGet(ModelStore, ops[d].key) = << >>

\* a callback of the open request of connect() call r runs in this step, and
\* the promise of the call is rejected after it
RejectedCallStep(r) ==
  /\ requests'[r] # requests[r]
  /\ requests'[r].promise = "rejected"

\* C25: no callback of a connect() call whose promise is rejected changes the
\* connection the instance holds or the state of any of its connections, a
\* success event the host fires after blocked included
C25_RejectedConnectKeepsConnection ==
  [][\A r \in Requests :
       RejectedCallStep(r) =>
         /\ connection' = connection
         /\ connections' = connections]_vars
====
